---- MODULE Spec2Model ----
(***************************************************************************)
(* pass-gen: a passphrase generator (src/src/main.rs).                     *)
(*                                                                         *)
(* The module models the run of main: Config::new folding over the         *)
(* argument list, the optional entropy report on the diagnostic stream,    *)
(* and the sampling loop that prints the passphrase.  Reporter::format_time *)
(* and Reporter::format_unit are pure functions and are additionally        *)
(* exercised on their own under SpecFmt.                                    *)
(*                                                                         *)
(* Strings stay strings.  Operations that look inside a string (parse,     *)
(* trim) are given by their value on every string of the model's universe. *)
(* An f64 duration is kept exactly, in mixed radix (see Time below).       *)
(***************************************************************************)
EXTENDS Integers, Sequences, FiniteSets, TLC

VARIABLES
    args,      \* Vec<String> collected from env::args(); args[1] is argv[0]
    idx,       \* Config::new: index (0-based) of the next argument to read
    config,    \* the Config being built, then used by main
    pc,        \* position of main: "parse", "report", "generate", "done"
    i,         \* main: loop counter of the generation loop
    gen_idx,   \* main: the index last drawn by rng.gen_range (-1: none yet)
    stdout,    \* chunks written by print!, in order
    stderr,    \* lines written by eprintln! and by the panic handler, in order
    status,    \* exit status of the process (Running while it has not ended)
    t_in,      \* format_time under SpecFmt: the duration given
    t_out      \* format_time under SpecFmt: the string returned

vars == <<args, idx, config, pc, i, gen_idx, stdout, stderr, status, t_in, t_out>>

(***************************************************************************)
(* Bounds of the model.                                                    *)
(***************************************************************************)
MaxArgs == 4          \* longest argument list (after argv[0]) that is tried
FmtDelta == 2         \* SpecFmt: seconds tried on each side of a tier boundary
MaxExp10 == 5         \* SpecFmt: durations reach 95 * 10^MaxExp10 centuries

Running == -1         \* status of a process that has not ended

(***************************************************************************)
(* UTILS: the time constants, lines 14-18.  A duration is                  *)
(*   cent centuries + qday quarter-days + sec seconds + a fraction of a    *)
(*   second, with qday < 146100 and sec < 21600,                           *)
(* which is exact for every value used: a year is 365.25 days = 1461       *)
(* quarter-days.  The fraction of a second is kept as its position         *)
(* relative to one half ("zero", "below", "half", "above"), which is all   *)
(* the comparisons and the rounding of the formatter read.                 *)
(***************************************************************************)
QDAY_SECS == 21600
MINUTE_SECS == 60
HOUR_SECS == MINUTE_SECS * 60
DAY_SECS == HOUR_SECS * 24
YEAR_QDAYS == (DAY_SECS \div QDAY_SECS) * 365 + 1       \* DAY * 365.25
CENTURY_QDAYS == YEAR_QDAYS * 100

Time(c, q, s, f) == [cent |-> c, qday |-> q, sec |-> s, frac |-> f]

FromSecs(s) == Time(0, s \div QDAY_SECS, s % QDAY_SECS, "zero")

ONE == FromSecs(1)
MINUTE == FromSecs(MINUTE_SECS)
HOUR == FromSecs(HOUR_SECS)
DAY == FromSecs(DAY_SECS)
YEAR == Time(0, YEAR_QDAYS, 0, "zero")
CENTURY == Time(1, 0, 0, "zero")

\* t < u for a unit u (units have no fraction of a second)
Lt(t, u) ==
    \/ t.cent < u.cent
    \/ t.cent = u.cent /\ t.qday < u.qday
    \/ t.cent = u.cent /\ t.qday = u.qday /\ t.sec < u.sec

\* position of a remainder (hi, lo, frac) relative to the half (hhi, hlo)
FracClass(hi, lo, f, hhi, hlo) ==
    IF hi = 0 /\ lo = 0 /\ f = "zero" THEN "zero"
    ELSE IF hi < hhi \/ (hi = hhi /\ lo < hlo) THEN "below"
    ELSE IF hi = hhi /\ lo = hlo /\ f = "zero" THEN "half"
    ELSE "above"

\* t / u, as integer part and position of the fractional part, for the
\* divisions format_time makes: t is below the next tier's boundary.
Div(t, u) ==
    IF u = ONE THEN [int |-> t.qday * QDAY_SECS + t.sec, frac |-> t.frac]
    ELSE IF u = CENTURY THEN
        [int  |-> t.cent,
         frac |-> FracClass(t.qday, t.sec, t.frac, CENTURY_QDAYS \div 2, 0)]
    ELSE IF u = YEAR THEN
        [int  |-> t.qday \div YEAR_QDAYS,
         frac |-> FracClass(t.qday % YEAR_QDAYS, t.sec, t.frac,
                            YEAR_QDAYS \div 2, QDAY_SECS \div 2)]
    ELSE LET U == u.qday * QDAY_SECS + u.sec
             S == t.qday * QDAY_SECS + t.sec
         IN  [int  |-> S \div U,
              frac |-> FracClass(0, S % U, t.frac, 0, U \div 2)]

(***************************************************************************)
(* Reporter::format_unit, lines 202-208.  The string is kept as its parts: *)
(* "<mant> <unit>" when exp = NoExp, "<mant>e+<exp> <unit>" otherwise.     *)
(* {:.0} and {:.0e} round to nearest, ties to even.                        *)
(***************************************************************************)
NoExp == -1
MILLION == 1000000

RECURSIVE Log10(_)
Log10(n) == IF n < 10 THEN 0 ELSE 1 + Log10(n \div 10)

RECURSIVE Pow(_, _)
Pow(b, e) == IF e = 0 THEN 1 ELSE b * Pow(b, e - 1)

RoundEven(x) ==
    IF x.frac = "above" \/ (x.frac = "half" /\ x.int % 2 = 1)
    THEN x.int + 1 ELSE x.int

format_unit(x, unit) ==
    IF x.int < MILLION
    THEN [mant |-> RoundEven(x), exp |-> NoExp, unit |-> unit]
    ELSE LET e    == Log10(x.int)
             p    == Pow(10, e)
             d    == x.int \div p
             rest == x.int % p
             up   == \/ 2 * rest > p
                     \/ 2 * rest = p /\ (x.frac # "zero" \/ d % 2 = 1)
             m    == IF up THEN d + 1 ELSE d
         IN  IF m = 10 THEN [mant |-> 1, exp |-> e + 1, unit |-> unit]
                       ELSE [mant |-> m, exp |-> e, unit |-> unit]

LessThanASecond == [mant |-> 0, exp |-> NoExp, unit |-> "less than a second"]

(***************************************************************************)
(* Reporter::format_time, lines 190-200.                                   *)
(***************************************************************************)
format_time_leq(t) ==
    IF Lt(t, ONE) THEN LessThanASecond
    ELSE IF Lt(t, MINUTE) \/ t = MINUTE THEN format_unit(Div(t, ONE), "seconds")
    ELSE IF Lt(t, HOUR) THEN format_unit(Div(t, MINUTE), "minutes")
    ELSE IF Lt(t, DAY) THEN format_unit(Div(t, HOUR), "hours")
    ELSE IF Lt(t, YEAR) THEN format_unit(Div(t, DAY), "days")
    ELSE IF Lt(t, CENTURY) THEN format_unit(Div(t, YEAR), "years")
    ELSE format_unit(Div(t, CENTURY), "centuries")

format_time(t) ==
    IF Lt(t, ONE) THEN LessThanASecond
    ELSE IF Lt(t, MINUTE) THEN format_unit(Div(t, ONE), "seconds")
    ELSE IF Lt(t, HOUR) THEN format_unit(Div(t, MINUTE), "minutes")
    ELSE IF Lt(t, DAY) THEN format_unit(Div(t, HOUR), "hours")
    ELSE IF Lt(t, YEAR) THEN format_unit(Div(t, DAY), "days")
    ELSE IF Lt(t, CENTURY) THEN format_unit(Div(t, YEAR), "years")
    ELSE format_unit(Div(t, CENTURY), "centuries")

(***************************************************************************)
(* mod data: the three presets.  The module is not part of the sources at  *)
(* hand; each preset is a count, a separator and a non-empty fixed list,   *)
(* here with short lists and counts so that every draw can be followed.    *)
(***************************************************************************)
word_TOKEN_COUNT == 3
word_TOKEN_SEP == " "
word_TOKEN_DATA == <<"apple", "bird">>

ascii_TOKEN_COUNT == 2
ascii_TOKEN_SEP == ""
ascii_TOKEN_DATA == <<"a", "!">>

number_TOKEN_COUNT == 1
number_TOKEN_SEP == ""
number_TOKEN_DATA == <<"0", "1">>

(***************************************************************************)
(* The environment: the file system seen by File::open and by              *)
(* BufReader::lines, the strings the arguments are made of, and the        *)
(* outcomes of running `tput cols`.                                        *)
(***************************************************************************)
Line(s) == [ok |-> TRUE, text |-> s]
ReadError == [ok |-> FALSE, text |-> ""]

\* path -> can it be opened, and the results lines() yields for it
FileSystem(path) ==
    CASE path = "empty" -> [opens |-> TRUE, lines |-> << >>]
      [] path = "toks"  -> [opens |-> TRUE, lines |-> <<Line("a"), Line(""), Line(" b ")>>]
      [] path = "bad"   -> [opens |-> TRUE, lines |-> <<Line("a"), ReadError>>]
      [] OTHER          -> [opens |-> FALSE, lines |-> << >>]

Alphabet ==
    {"-r", "-c", "-s", "-f", "-p", "--report", "--preset",
     "0", "2", "word", "ascii", "number", "empty", "toks", "bad"}

\* outcomes of Command::new("tput").arg("cols").output()
Probes ==
    {[spawned |-> FALSE, utf8 |-> TRUE,  out |-> ""],
     [spawned |-> TRUE,  utf8 |-> FALSE, out |-> ""],
     [spawned |-> TRUE,  utf8 |-> TRUE,  out |-> ""],
     [spawned |-> TRUE,  utf8 |-> TRUE,  out |-> "120\n"]}

None == -1

\* str::parse::<u32>() and ::<usize>() on the strings of the model
ParseUnsigned(s) ==
    CASE s = "0" -> 0
      [] s = "2" -> 2
      [] s = "120" -> 120
      [] OTHER -> None

\* str::trim() on the strings of the model
Trim(s) ==
    CASE s = "120\n" -> "120"
      [] s = " b " -> "b"
      [] OTHER -> s

(***************************************************************************)
(* TOKEN DATA, lines 32-55.                                                *)
(***************************************************************************)
Static(x) == [kind |-> "Static", items |-> x]
Owned(x) == [kind |-> "Owned", items |-> x]

len(data) == Len(data.items)

range_inclusive(data) == 0 .. len(data)

range(data) == 0 .. (len(data) - 1)

\* x[idx] panics unless the index is in bounds
InBounds(data, k) == k >= 0 /\ k < len(data)
get(data, k) == data.items[k + 1]

(***************************************************************************)
(* CONFIG, lines 62-161.                                                   *)
(***************************************************************************)
Config(r, c, s, d) ==
    [report |-> r, token_count |-> c, token_sep |-> s, token_data |-> d]

DefaultConfig ==
    Config(FALSE, word_TOKEN_COUNT, word_TOKEN_SEP, Static(word_TOKEN_DATA))

Presets == {"ascii", "number", "word"}

PresetConfig_reset_report(cfg, preset) ==
    CASE preset = "ascii" ->
            Config(FALSE, ascii_TOKEN_COUNT, ascii_TOKEN_SEP, Static(ascii_TOKEN_DATA))
      [] preset = "number" ->
            Config(FALSE, number_TOKEN_COUNT, number_TOKEN_SEP, Static(number_TOKEN_DATA))
      [] preset = "word" ->
            Config(FALSE, word_TOKEN_COUNT, word_TOKEN_SEP, Static(word_TOKEN_DATA))

\* the match on preset, lines 113-131
PresetConfig(cfg, preset) ==
    CASE preset = "ascii" ->
            Config(cfg.report, ascii_TOKEN_COUNT, ascii_TOKEN_SEP, Static(ascii_TOKEN_DATA))
      [] preset = "number" ->
            Config(cfg.report, number_TOKEN_COUNT, number_TOKEN_SEP, Static(number_TOKEN_DATA))
      [] preset = "word" ->
            Config(cfg.report, word_TOKEN_COUNT, word_TOKEN_SEP, Static(word_TOKEN_DATA))

FileConfig_reset(cfg, lines) ==
    [DefaultConfig EXCEPT !.report = cfg.report, !.token_data = Owned(lines)]

\* config.token_data = TokenData::Owned(...), lines 101-104
FileConfig(cfg, lines) == [cfg EXCEPT !.token_data = Owned(lines)]

\* lines().map(Result::unwrap).collect(): the texts, when every line reads
AllRead(results) == \A k \in 1..Len(results) : results[k].ok
Collect(results) == [k \in 1..Len(results) |-> results[k].text]

\* the lines written to the diagnostic stream
ErrorLine(text, arg) == [kind |-> "pass-gen", text |-> text, arg |-> arg]
PanicLine(text, at) == [kind |-> "panic", text |-> text, arg |-> at]
ReportLine(label, value) == [kind |-> "report", text |-> label, arg |-> value]

\* error!, lines 20-25: eprintln!("pass-gen: ...") then exit(1)
Error(text, arg) ==
    /\ stderr' = Append(stderr, ErrorLine(text, arg))
    /\ status' = 1

\* a panic of the main thread: the message goes to stderr, the status is 101
Panic(text, at) ==
    /\ stderr' = Append(stderr, PanicLine(text, at))
    /\ status' = 101

(***************************************************************************)
(* Config::new, lines 81-140: one action per arm of the match, each a full *)
(* turn of the while loop (idx += 1, the arm, and the helper it calls).    *)
(***************************************************************************)
Parsing == pc = "parse" /\ status = Running
HasFlag == idx < Len(args)             \* args.get(idx) is Some
Flag == args[idx + 1]
HasArg == idx + 1 < Len(args)          \* get_string: args.get(*idx) is Some
Arg == args[idx + 2]

ReportFlags == {"-r", "--report"}
CountFlags == {"-c", "--count"}
SepFlags == {"-s", "--sep"}
FileFlags == {"-f", "--file"}
PresetFlags == {"-p", "--preset"}
Flags == ReportFlags \cup CountFlags \cup SepFlags \cup FileFlags \cup PresetFlags

\* get_string's failure, lines 146-148
MissingArgument ==
    /\ Error("missing argument to", Flag)
    /\ idx' = idx + 1
    /\ UNCHANGED config

ParseReport ==
    /\ Parsing /\ HasFlag /\ Flag \in ReportFlags
    /\ config' = [config EXCEPT !.report = TRUE]
    /\ idx' = idx + 1
    /\ UNCHANGED <<args, pc, i, gen_idx, stdout, stderr, status, t_in, t_out>>

\* lines 92-94 with get_number, lines 151-160
ParseCount ==
    /\ Parsing /\ HasFlag /\ Flag \in CountFlags
    /\ IF ~HasArg THEN MissingArgument
       ELSE IF ParseUnsigned(Arg) # None /\ ParseUnsigned(Arg) > 0
       THEN /\ config' = [config EXCEPT !.token_count = ParseUnsigned(Arg)]
            /\ idx' = idx + 2
            /\ UNCHANGED <<stderr, status>>
       ELSE /\ Error("invalid argument, expected positve number", Arg)
            /\ idx' = idx + 2
            /\ UNCHANGED config
    /\ UNCHANGED <<args, pc, i, gen_idx, stdout, t_in, t_out>>

\* lines 95-97
ParseSep ==
    /\ Parsing /\ HasFlag /\ Flag \in SepFlags
    /\ IF ~HasArg THEN MissingArgument
       ELSE /\ config' = [config EXCEPT !.token_sep = Arg]
            /\ idx' = idx + 2
            /\ UNCHANGED <<stderr, status>>
    /\ UNCHANGED <<args, pc, i, gen_idx, stdout, t_in, t_out>>

\* lines 98-109
ParseFile ==
    /\ Parsing /\ HasFlag /\ Flag \in FileFlags
    /\ IF ~HasArg THEN MissingArgument
       ELSE LET f == FileSystem(Arg) IN
            IF ~f.opens
            THEN /\ Error("error while reading token file", Arg)
                 /\ idx' = idx + 2
                 /\ UNCHANGED config
            ELSE IF ~AllRead(f.lines)
            THEN /\ Panic("called Result::unwrap() on an Err value", "lines")
                 /\ idx' = idx + 2
                 /\ UNCHANGED config
            ELSE /\ config' = FileConfig(config, Collect(f.lines))
                 /\ idx' = idx + 2
                 /\ UNCHANGED <<stderr, status>>
    /\ UNCHANGED <<args, pc, i, gen_idx, stdout, t_in, t_out>>

\* lines 110-134
ParsePreset ==
    /\ Parsing /\ HasFlag /\ Flag \in PresetFlags
    /\ IF ~HasArg THEN MissingArgument
       ELSE IF Arg \in Presets
       THEN /\ config' = PresetConfig(config, Arg)
            /\ idx' = idx + 2
            /\ UNCHANGED <<stderr, status>>
       ELSE /\ Error("invalid preset", Arg)
            /\ idx' = idx + 2
            /\ UNCHANGED config
    /\ UNCHANGED <<args, pc, i, gen_idx, stdout, t_in, t_out>>

\* line 135
ParseInvalid ==
    /\ Parsing /\ HasFlag /\ Flag \notin Flags
    /\ Error("invalid option", Flag)
    /\ idx' = idx + 1
    /\ UNCHANGED <<args, config, pc, i, gen_idx, stdout, t_in, t_out>>

\* the while let ends, Config::new returns (line 139) and main goes on
ParseEnd ==
    /\ Parsing /\ ~HasFlag
    /\ pc' = "report"
    /\ UNCHANGED <<args, idx, config, i, gen_idx, stdout, stderr, status, t_in, t_out>>

(***************************************************************************)
(* REPORTER, lines 167-218.                                                *)
(***************************************************************************)
DefaultWidth == 80

\* get_term_width, lines 210-217: the width, or None when an unwrap panics.
\* Only the Err of output() reaches unwrap_or(80).
get_term_width(probe) ==
    IF ~probe.spawned THEN DefaultWidth
    ELSE IF ~probe.utf8 THEN None
    ELSE ParseUnsigned(Trim(probe.out))

\* (total_entropy - bits).exp2() = pool_size^token_count / 2^bits, which for
\* the pools and counts of the model is below one half (or zero for an empty
\* pool, whose log2 is -inf).
GuessTime(pool_size, token_count, bits) ==
    LET p == Pow(pool_size, token_count) IN
    CASE p = 0 -> Time(0, 0, 0, "zero")
      [] p > 0 /\ p < Pow(2, 30) /\ bits > 30 -> Time(0, 0, 0, "below")

\* the six lines print_report writes before it asks for the width; the two
\* entropies are kept as the expressions they are the value of
print_report(pool_size, token_count) ==
    <<ReportLine("entropy per word:", <<"log2", pool_size>>),
      ReportLine("total entropy:", <<"log2", pool_size, "*", token_count>>),
      ReportLine("guess times:", << >>),
      ReportLine("  1 billion / second:",
                 format_time(GuessTime(pool_size, token_count, 31))),
      ReportLine("  1 quadrillion / second:",
                 format_time(GuessTime(pool_size, token_count, 51))),
      ReportLine("  1 sextillion / second:",
                 format_time(GuessTime(pool_size, token_count, 71)))>>

RuleLine(width) == ReportLine("-", width)

(***************************************************************************)
(* MAIN, lines 224-251.                                                    *)
(***************************************************************************)
MainReport_to_stdout ==
    /\ pc = "report" /\ status = Running
    /\ IF config.report
       THEN \E probe \in Probes :
              LET lines == print_report(len(config.token_data), config.token_count)
                  width == get_term_width(probe)
              IN  IF width = None
                  THEN /\ stderr' = Append(stderr \o lines,
                             PanicLine("called Result::unwrap() on an Err value",
                                       "get_term_width"))
                       /\ status' = 101
                       /\ UNCHANGED <<pc, i, stdout>>
                  ELSE /\ stdout' = Append(stdout \o lines, RuleLine(width))
                       /\ pc' = "generate"
                       /\ i' = 1
                       /\ UNCHANGED <<status, stderr>>
       ELSE /\ pc' = "generate"
            /\ i' = 1
            /\ UNCHANGED <<status, stdout, stderr>>
    /\ UNCHANGED <<args, idx, config, gen_idx, t_in, t_out>>

\* lines 230-237, and the start of the for loop
MainReport ==
    /\ pc = "report" /\ status = Running
    /\ IF config.report
       THEN \E probe \in Probes :
              LET lines == print_report(len(config.token_data), config.token_count)
                  width == get_term_width(probe)
              IN  IF width = None
                  THEN /\ stderr' = Append(stderr \o lines,
                             PanicLine("called Result::unwrap() on an Err value",
                                       "get_term_width"))
                       /\ status' = 101
                       /\ UNCHANGED <<pc, i>>
                  ELSE /\ stderr' = Append(stderr \o lines, RuleLine(width))
                       /\ pc' = "generate"
                       /\ i' = 1
                       /\ UNCHANGED status
       ELSE /\ pc' = "generate"
            /\ i' = 1
            /\ UNCHANGED <<status, stderr>>
    /\ UNCHANGED <<args, idx, config, gen_idx, stdout, t_in, t_out>>

Token(s) == [kind |-> "token", text |-> s]
Sep(s) == [kind |-> "sep", text |-> s]

SepFollows_always(k, count) == TRUE

\* line 247
SepFollows(k, count) == k # count

\* one turn of the for loop, lines 242-250
Generate ==
    /\ pc = "generate" /\ status = Running
    /\ i <= config.token_count
    /\ IF range(config.token_data) = {}
       THEN /\ Panic("cannot sample empty range", "gen_range")
            /\ UNCHANGED <<i, gen_idx, stdout>>
       ELSE \E k \in range(config.token_data) :
              /\ gen_idx' = k
              /\ IF ~InBounds(config.token_data, k)
                 THEN /\ Panic("index out of bounds", "get")
                      /\ UNCHANGED <<i, stdout>>
                 ELSE /\ stdout' =
                           IF SepFollows(i, config.token_count)
                           THEN stdout \o <<Token(get(config.token_data, k)),
                                            Sep(config.token_sep)>>
                           ELSE Append(stdout, Token(get(config.token_data, k)))
                      /\ i' = i + 1
                      /\ UNCHANGED <<stderr, status>>
    /\ UNCHANGED <<args, idx, config, pc, t_in, t_out>>

\* the loop is over and main returns
Finish ==
    /\ pc = "generate" /\ status = Running
    /\ i > config.token_count
    /\ pc' = "done"
    /\ status' = 0
    /\ UNCHANGED <<args, idx, config, i, gen_idx, stdout, stderr, t_in, t_out>>

NoTime == Time(0, 0, 0, "zero")
NotFormatted == [mant |-> 0, exp |-> NoExp, unit |-> ""]

Init ==
    /\ \E n \in 0..MaxArgs : \E a \in [1..n -> Alphabet] : args = <<"pass-gen">> \o a
    /\ idx = 1
    /\ config = DefaultConfig
    /\ pc = "parse"
    /\ i = 0
    /\ gen_idx = None
    /\ stdout = << >>
    /\ stderr = << >>
    /\ status = Running
    /\ t_in = NoTime
    /\ t_out = NotFormatted

Next ==
    \/ ParseReport
    \/ ParseCount
    \/ ParseSep
    \/ ParseFile
    \/ ParsePreset
    \/ ParseInvalid
    \/ ParseEnd
    \/ MainReport
    \/ Generate
    \/ Finish

Spec == Init /\ [][Next]_vars

(***************************************************************************)
(* format_time on its own: a duration is drawn, then formatted.            *)
(***************************************************************************)
Fracs == {"zero", "below", "half", "above"}

\* b + d seconds (|d| small), with the fraction f; cent < 0 when negative
AddSecs(b, d, f) ==
    LET s0 == b.sec + d
        s  == IF s0 < 0 THEN s0 + QDAY_SECS
              ELSE IF s0 >= QDAY_SECS THEN s0 - QDAY_SECS ELSE s0
        q0 == IF s0 < 0 THEN b.qday - 1
              ELSE IF s0 >= QDAY_SECS THEN b.qday + 1 ELSE b.qday
        q  == IF q0 < 0 THEN q0 + CENTURY_QDAYS
              ELSE IF q0 >= CENTURY_QDAYS THEN q0 - CENTURY_QDAYS ELSE q0
        c  == IF q0 < 0 THEN b.cent - 1
              ELSE IF q0 >= CENTURY_QDAYS THEN b.cent + 1 ELSE b.cent
    IN  Time(c, q, s, f)

\* the tier boundaries, and the points half way between two printed values
Boundaries ==
    {FromSecs(0), ONE, MINUTE, FromSecs(90), FromSecs(150), HOUR,
     FromSecs(HOUR_SECS + HOUR_SECS \div 2), DAY, FromSecs(DAY_SECS + DAY_SECS \div 2),
     YEAR, Time(0, YEAR_QDAYS + YEAR_QDAYS \div 2, QDAY_SECS \div 2, "zero"),
     Time(0, CENTURY_QDAYS - 1, QDAY_SECS - 1, "zero"), CENTURY,
     Time(1, CENTURY_QDAYS \div 2, 0, "zero")}

Durations ==
    {t \in {AddSecs(b, d, f) : b \in Boundaries, d \in (0 - FmtDelta)..FmtDelta, f \in Fracs} :
        t.cent >= 0}
    \cup
    {Time(m * Pow(10, e), q, 0, f) :
        m \in {1, 15, 25, 95}, e \in 0..MaxExp10,
        q \in {0, CENTURY_QDAYS \div 2}, f \in {"zero", "below"}}

InitFmt ==
    /\ args = <<"pass-gen">>
    /\ idx = 1
    /\ config = DefaultConfig
    /\ pc = "format"
    /\ i = 0
    /\ gen_idx = None
    /\ stdout = << >>
    /\ stderr = << >>
    /\ status = Running
    /\ t_in \in Durations
    /\ t_out = NotFormatted

FormatTime ==
    /\ pc = "format"
    /\ t_out' = format_time(t_in)
    /\ pc' = "formatted"
    /\ UNCHANGED <<args, idx, config, i, gen_idx, stdout, stderr, status, t_in>>

NextFmt == FormatTime

SpecFmt == InitFmt /\ [][NextFmt]_vars

(***************************************************************************)
(* The properties.                                                         *)
(***************************************************************************)
Succeeded == pc = "done" /\ status = 0
Items(data) == {data.items[k] : k \in 1..Len(data.items)}
ReportLinesOf(out) == {k \in 1..Len(out) : out[k].kind = "report"}
IsPresetStep == Parsing /\ HasFlag /\ Flag \in PresetFlags /\ HasArg /\ Arg \in Presets
IsFileStep ==
    /\ Parsing /\ HasFlag /\ Flag \in FileFlags /\ HasArg
    /\ FileSystem(Arg).opens /\ AllRead(FileSystem(Arg).lines)

\* C1: a successful run with token_count = c and separator s has written to
\* standard output exactly c tokens of the pool with s between every two
\* adjacent ones: 2c - 1 chunks, tokens at the odd places, s at the even
\* places, nothing before the first token and nothing after the last.
C1_TokensJoinedBySeparator ==
    Succeeded =>
        /\ config.token_count >= 1
        /\ Len(stdout) = 2 * config.token_count - 1
        /\ \A k \in 1..Len(stdout) :
              IF k % 2 = 1
              THEN stdout[k].kind = "token" /\ stdout[k].text \in Items(config.token_data)
              ELSE stdout[k] = Sep(config.token_sep)

C1_Witness ==
    /\ Succeeded
    /\ args = <<"pass-gen", "--preset", "word", "-s", "2">>
    /\ Len(stdout) = 5
    /\ stdout[4] = Sep("2")

\* C2: when Config::new ends the process (invalid flag, missing argument, bad
\* count, token file that cannot be opened or read, unknown preset) the last
\* diagnostic line is "pass-gen: <message>", the status is non-zero and
\* nothing was written to standard output.
C2_ParseFailureIsReported ==
    (pc = "parse" /\ status # Running) =>
        /\ status # 0
        /\ stdout = << >>
        /\ stderr # << >>
        /\ stderr[Len(stderr)].kind = "pass-gen"

\* C3: a valid -p/--preset flag, wherever it stands, sets token_count,
\* token_sep and token_data to the preset's defaults, whatever they were, and
\* leaves report as it was.
C3_PresetResetsAllButReport ==
    [][IsPresetStep =>
         /\ config'.report = config.report
         /\ Arg = "ascii" =>
              /\ config'.token_count = ascii_TOKEN_COUNT
              /\ config'.token_sep = ascii_TOKEN_SEP
              /\ config'.token_data = Static(ascii_TOKEN_DATA)
         /\ Arg = "number" =>
              /\ config'.token_count = number_TOKEN_COUNT
              /\ config'.token_sep = number_TOKEN_SEP
              /\ config'.token_data = Static(number_TOKEN_DATA)
         /\ Arg = "word" =>
              /\ config'.token_count = word_TOKEN_COUNT
              /\ config'.token_sep = word_TOKEN_SEP
              /\ config'.token_data = Static(word_TOKEN_DATA)]_vars

C3_Witness ==
    /\ args = <<"pass-gen", "--report", "-p", "number">>
    /\ idx = 4
    /\ config = Config(TRUE, number_TOKEN_COUNT, number_TOKEN_SEP, Static(number_TOKEN_DATA))

\* C4: no report line is ever written to standard output; once a token has
\* been written with the report requested, all seven report lines, the rule
\* last, are already on the diagnostic stream; with the report not
\* requested the diagnostic stream holds no report line.
C4_ReportFirstAndOnlyOnStderr ==
    /\ ReportLinesOf(stdout) = {}
    /\ (stdout # << >> /\ config.report) =>
          /\ Cardinality(ReportLinesOf(stderr)) = 7
          /\ stderr[Len(stderr)].text = "-"
    /\ (pc # "parse" /\ ~config.report) => ReportLinesOf(stderr) = {}

C4_Witness ==
    /\ Succeeded
    /\ config.report
    /\ Len(stderr) = 7
    /\ stderr[7] = RuleLine(120)
    /\ stdout # << >>

\* C5: every index drawn lies in [0, N), N the size of the pool, and get
\* never panics on an index out of bounds.
C5_DrawnIndexInRange ==
    /\ gen_idx # None => (gen_idx >= 0 /\ gen_idx < len(config.token_data))
    /\ \A k \in 1..Len(stderr) : stderr[k].text # "index out of bounds"

C5_Witness ==
    /\ config.token_data.kind = "Owned"
    /\ len(config.token_data) = 3
    /\ gen_idx = 2
    /\ Len(stdout) >= 1

\* C6: when the sampling loop starts, the pool holds at least one token.
C6_PoolNeverEmpty ==
    pc = "generate" => len(config.token_data) >= 1

IsNonEmpty(s) == s # ""
NonEmptyTrimmed(results) ==
    SelectSeq([k \in 1..Len(results) |-> Trim(results[k].text)], IsNonEmpty)

\* C7: a pool loaded with -f/--file is exactly the trimmed, non-empty lines
\* of the file, in file order.
C7_FilePoolIsTrimmedNonEmptyLines ==
    [][IsFileStep =>
         config'.token_data = Owned(NonEmptyTrimmed(FileSystem(Arg).lines))]_vars

\* C8: get_term_width never ends the process: no panic comes out of it,
\* whatever the probe does.
C8_TermWidthNeverFatal ==
    \A k \in 1..Len(stderr) :
        ~(stderr[k].kind = "panic" /\ stderr[k].arg = "get_term_width")

Before(t, c, q, s) ==
    \/ t.cent < c
    \/ t.cent = c /\ t.qday < q
    \/ t.cent = c /\ t.qday = q /\ t.sec < s

TierOf(t) ==
    CASE Before(t, 0, 0, 1) -> "less than a second"
      [] ~Before(t, 0, 0, 1) /\ Before(t, 0, 0, 60) -> "seconds"
      [] ~Before(t, 0, 0, 60) /\ Before(t, 0, 0, 3600) -> "minutes"
      [] ~Before(t, 0, 0, 3600) /\ Before(t, 0, 4, 0) -> "hours"
      [] ~Before(t, 0, 4, 0) /\ Before(t, 0, 1461, 0) -> "days"
      [] ~Before(t, 0, 1461, 0) /\ Before(t, 1, 0, 0) -> "years"
      [] ~Before(t, 1, 0, 0) -> "centuries"

\* floor and ceiling of twice the fraction of a second
Floor2(f) == IF f \in {"half", "above"} THEN 1 ELSE 0
Ceil2(f) == CASE f = "zero" -> 0 [] f = "above" -> 2 [] OTHER -> 1

\* floor and ceiling of 2 * t / (qdays quarter-days)
FloorTwiceInQdays(t, qdays) ==
    2 * t.cent * (146100 \div qdays)
        + (2 * t.qday + (2 * t.sec + Floor2(t.frac)) \div 21600) \div qdays
CeilTwiceInQdays(t, qdays) ==
    2 * t.cent * (146100 \div qdays)
        + (2 * t.qday + (2 * t.sec + Ceil2(t.frac) + 21599) \div 21600 + qdays - 1) \div qdays

\* floor and ceiling of 2 * t / (secs seconds), for t below a year
FloorTwiceInSecs(t, secs) ==
    (2 * (t.qday * 21600 + t.sec) + Floor2(t.frac)) \div secs
CeilTwiceInSecs(t, secs) ==
    (2 * (t.qday * 21600 + t.sec) + Ceil2(t.frac) + secs - 1) \div secs

\* out prints t / unit to the nearest multiple of its last digit
PrintsQuotient(out, lo, hi) ==
    LET p == IF out.exp = NoExp THEN 1 ELSE Pow(10, out.exp)
        v == out.mant * p
    IN  2 * v - p <= lo /\ hi <= 2 * v + p

\* C9: format_time puts every duration t >= 0 in the one tier its bounds
\* name (t < 1; 1 <= t < 60; 60 <= t < 3600; 3600 <= t < 86400;
\* 86400 <= t < 365.25 days; 365.25 days <= t < 100 years; t >= 100 years),
\* and the value printed is t divided by the tier's unit, to the precision
\* printed (within half a unit of the last digit).
C9_FormatTimeTiers ==
    pc = "formatted" =>
        /\ t_out.unit = TierOf(t_in)
        /\ t_out.unit = "less than a second" => t_out = LessThanASecond
        /\ t_out.unit = "seconds" =>
              PrintsQuotient(t_out, FloorTwiceInSecs(t_in, 1), CeilTwiceInSecs(t_in, 1))
        /\ t_out.unit = "minutes" =>
              PrintsQuotient(t_out, FloorTwiceInSecs(t_in, 60), CeilTwiceInSecs(t_in, 60))
        /\ t_out.unit = "hours" =>
              PrintsQuotient(t_out, FloorTwiceInSecs(t_in, 3600), CeilTwiceInSecs(t_in, 3600))
        /\ t_out.unit = "days" =>
              PrintsQuotient(t_out, FloorTwiceInSecs(t_in, 86400), CeilTwiceInSecs(t_in, 86400))
        /\ t_out.unit = "years" =>
              PrintsQuotient(t_out, FloorTwiceInQdays(t_in, 1461), CeilTwiceInQdays(t_in, 1461))
        /\ t_out.unit = "centuries" =>
              PrintsQuotient(t_out, FloorTwiceInQdays(t_in, 146100),
                             CeilTwiceInQdays(t_in, 146100))

C9_Witness ==
    /\ pc = "formatted"
    /\ t_in = Time(0, 1461, 0, "zero")
    /\ t_out = [mant |-> 1, exp |-> NoExp, unit |-> "years"]

RECURSIVE LastPool(_, _, _)
LastPool(a, k, pool) ==
    IF k >= Len(a) THEN pool
    ELSE IF a[k + 1] \in ReportFlags THEN LastPool(a, k + 1, pool)
    ELSE IF a[k + 1] \in FileFlags
         THEN LastPool(a, k + 2, Owned(Collect(FileSystem(a[k + 2]).lines)))
    ELSE IF a[k + 1] \in PresetFlags
         THEN LastPool(a, k + 2,
                       CASE a[k + 2] = "ascii" -> Static(ascii_TOKEN_DATA)
                         [] a[k + 2] = "number" -> Static(number_TOKEN_DATA)
                         [] a[k + 2] = "word" -> Static(word_TOKEN_DATA))
    ELSE LastPool(a, k + 2, pool)

\* C10: a -f/--file flag whose file opens and reads replaces token_data only
\* (report, token_count and token_sep stay as they were), and after parsing
\* the pool is the one of the last --file or --preset flag of the argument
\* list (the word list when there is none).
C10_FileReplacesPoolOnly ==
    /\ [][IsFileStep =>
            /\ config'.report = config.report
            /\ config'.token_count = config.token_count
            /\ config'.token_sep = config.token_sep
            /\ config'.token_data = Owned(Collect(FileSystem(Arg).lines))]_vars
    /\ [](pc \in {"report", "generate", "done"} =>
            config.token_data = LastPool(args, 1, Static(word_TOKEN_DATA)))

C10_Witness ==
    /\ args = <<"pass-gen", "-p", "number", "-f", "toks">>
    /\ pc = "generate"
    /\ config = Config(FALSE, number_TOKEN_COUNT, number_TOKEN_SEP, Owned(<<"a", "", " b ">>))

====
